---- MODULE Spec2Model ----
(***************************************************************************)
(* Client-side task streaming and recovery of the DeepCode web UI:         *)
(* the zustand workflow store with its persisted projection, the           *)
(* useStreaming frame handler and its effects, the useTaskRecovery hook,   *)
(* the interaction respond calls and the page-level start/cancel handlers. *)
(***************************************************************************)
EXTENDS Integers, Sequences, FiniteSets, TLC

VARIABLES
    store,          \* useWorkflowStore state (workflowStore.ts WorkflowState)
    blob,           \* localStorage['deepcode-workflow'] (persist partialize)
    page,           \* the mounted route: "home", "chat-planning", "paper-to-code"
    prevTaskIdRef,  \* useStreaming: prevTaskIdRef.current
    ws,             \* useStreaming's two useWebSocket instances
    recoveryState,  \* useTaskRecovery: recoveryState (React state of Layout)
    recoverReq,     \* the getStatus call of recoverTask that is in flight
    startReq,       \* the start call of handleSubmit/handleStart that is in flight
    respondReqs,    \* the respondToInteraction calls that are in flight
    isSubmitting,   \* InteractionPanel / InlineChatInteraction: isSubmitting
    cancelReq,      \* the cancel call of handleCancelTask that is in flight
    chan            \* the useWebSocket instance of the progress channel, event
                    \* by event: its refs, its sockets, its timers

vars == <<store, blob, page, prevTaskIdRef, ws, recoveryState, recoverReq,
          startReq, respondReqs, isSubmitting, cancelReq, chan>>

----------------------------------------------------------------------------
(* Values *)

\* null / undefined of a string-valued field
Null == "null"
\* undefined of a numeric frame field
Undefined == -1

\* Bounds of the model: the entries the activity log may hold, the chunks
\* and files the streamed content may hold, and the log of the scenario runs
MaxLog == 2
MaxStream == 1
\* maxReconnectAttempts (50 in the code) scaled down
maxReconnectAttempts == 2
\* the sockets whose close event is pending and the reconnect timers that
\* are pending, at most
MaxPending == 2
ScenarioLog == 4

TaskIds == {"t1", "t2"}
WorkflowTypes == {"paper-to-code", "chat-planning"}
Pages == {"home"} \cup WorkflowTypes
StreamingPages == WorkflowTypes
Channels == {"workflow", "code-stream"}
InteractionTypes == {"plan_review", "requirement_questions"}
Results == {"r1"}
TaskNotFound == "Task not found"
ErrorTexts == {"OOM", TaskNotFound}
RespondActions == {"confirm", "skip"}
Chunks == {"c"}
Filenames == {"f"}

----------------------------------------------------------------------------
(* types/workflow.ts *)

Step(id, threshold) == [id |-> id, progress |-> threshold, status |-> "pending"]

PAPER_TO_CODE_STEPS ==
    << Step("init", 5), Step("analyze", 10), Step("download", 25),
       Step("plan", 40), Step("references", 50), Step("repos", 60),
       Step("index", 70), Step("implement", 85) >>

CHAT_PLANNING_STEPS ==
    << Step("init", 5), Step("plan", 30), Step("setup", 50),
       Step("draft", 70), Step("implement", 85) >>

----------------------------------------------------------------------------
(* stores/workflowStore.ts *)

initialState ==
    [ activeTaskId       |-> Null,
      workflowType       |-> Null,
      status             |-> "idle",
      progress           |-> 0,
      message            |-> "",
      steps              |-> << >>,
      currentStepIndex   |-> -1,
      streamedCode       |-> << >>,
      currentFile        |-> Null,
      generatedFiles     |-> << >>,
      activityLogs       |-> << >>,
      pendingInteraction |-> Null,
      isWaitingForInput  |-> FALSE,
      result             |-> Null,
      error              |-> Null,
      needsRecovery      |-> FALSE ]

\* workflowType ?? get().workflowType
setActiveTask(s, taskId, workflowType) ==
    [s EXCEPT !.activeTaskId = taskId,
              !.workflowType = IF workflowType = Null THEN s.workflowType
                               ELSE workflowType]

setStatus(s, status) == [s EXCEPT !.status = status]

\* a bug: the loop runs upwards and stops at the first threshold reached
FindStepIndex_First(steps, progress) ==
    LET hit == {i \in 1..Len(steps) : progress >= steps[i].progress}
    IN  IF hit = {} THEN -1
        ELSE (CHOOSE i \in hit : \A j \in hit : i <= j) - 1

\* the loop of updateProgress: the greatest index i (from 0) with
\* progress >= steps[i].progress, -1 when there is none
FindStepIndex(steps, progress) ==
    LET hit == {i \in 1..Len(steps) : progress >= steps[i].progress}
    IN  IF hit = {} THEN -1
        ELSE (CHOOSE i \in hit : \A j \in hit : j <= i) - 1

\* a bug: the steps below the current one stay active
StepStatus_StaysActive(index, currentStepIndex, isComplete) ==
    IF isComplete THEN "completed"
    ELSE IF index <= currentStepIndex THEN "active"
    ELSE "pending"


StepStatus(index, currentStepIndex, isComplete) ==
    IF isComplete THEN "completed"
    ELSE IF index < currentStepIndex THEN "completed"
    ELSE IF index = currentStepIndex THEN "active"
    ELSE "pending"

updateProgress(s, progress, message) ==
    LET currentStepIndex == FindStepIndex(s.steps, progress)
        isComplete == progress >= 100
        updatedSteps ==
            [i \in 1..Len(s.steps) |->
                [s.steps[i] EXCEPT
                    !.status = StepStatus(i - 1, currentStepIndex, isComplete)]]
    IN  [s EXCEPT !.progress = progress,
                  !.message = message,
                  !.currentStepIndex =
                      IF isComplete THEN Len(s.steps) - 1 ELSE currentStepIndex,
                  !.steps = updatedSteps]

setSteps(s, steps) == [s EXCEPT !.steps = steps]

\* a bug: the chunk is also stored as the task's message
appendStreamedCode_AsMessage(s, chunk) ==
    [s EXCEPT !.streamedCode = s.streamedCode \o <<chunk>>, !.message = chunk]

\* streamedCode is kept as the sequence of the chunks concatenated so far
appendStreamedCode(s, chunk) ==
    [s EXCEPT !.streamedCode = s.streamedCode \o <<chunk>>]

setCurrentFile(s, filename) == [s EXCEPT !.currentFile = filename]

addGeneratedFile(s, filename) ==
    [s EXCEPT !.generatedFiles = Append(s.generatedFiles, filename)]

\* an entry's id and timestamp are fresh on every call and are not kept;
\* message is the pair <<fixed prefix of the template string, inserted text>>
LogEntry(message, progress, type) ==
    [message |-> message, progress |-> progress, type |-> type]

\* a bug: the newest entry is put first
addActivityLog_NewestFirst(s, message, progress, type) ==
    [s EXCEPT !.activityLogs =
        <<LogEntry(message, progress, type)>> \o s.activityLogs]


addActivityLog(s, message, progress, type) ==
    [s EXCEPT !.activityLogs =
        Append(s.activityLogs, LogEntry(message, progress, type))]

\* a bug: a pending interaction is not overwritten
setPendingInteraction_KeepPending(s, interaction) ==
    IF s.pendingInteraction # Null /\ interaction # Null THEN s
    ELSE [s EXCEPT !.pendingInteraction = interaction,
                   !.isWaitingForInput = (interaction # Null)]

\* a bug: the flag is not raised with the interaction
setPendingInteraction_NoFlag(s, interaction) ==
    [s EXCEPT !.pendingInteraction = interaction]


setPendingInteraction(s, interaction) ==
    [s EXCEPT !.pendingInteraction = interaction,
              !.isWaitingForInput = (interaction # Null)]


clearInteraction(s) ==
    [s EXCEPT !.pendingInteraction = Null, !.isWaitingForInput = FALSE]

setResult(s, result) == [s EXCEPT !.result = result]

\* error ? 'error' : get().status  -- null and '' are falsy
setError(s, error) ==
    [s EXCEPT !.error = error,
              !.status = IF error # Null /\ error # "" THEN "error" ELSE s.status]

setNeedsRecovery(s, needs) == [s EXCEPT !.needsRecovery = needs]

\* a bug: the reset keeps the activity log and the streamed content
reset_KeepContent(s) ==
    [initialState EXCEPT !.activityLogs = s.activityLogs,
                         !.streamedCode = s.streamedCode,
                         !.generatedFiles = s.generatedFiles]

\* localStorage.removeItem, then set(initialState)
reset(s) == initialState

\* a bug: a task that waits for input without running is not persisted
partialize_OnlyRunning(s) ==
    LET isActive == s.status = "running"
    IN  [ activeTaskId      |-> IF isActive THEN s.activeTaskId ELSE Null,
          workflowType      |-> IF isActive THEN s.workflowType ELSE Null,
          status            |-> IF isActive THEN s.status ELSE "idle",
          progress          |-> IF isActive THEN s.progress ELSE 0,
          steps             |-> IF isActive THEN s.steps ELSE << >>,
          isWaitingForInput |-> s.isWaitingForInput ]

\* persist's partialize: what every set() writes to localStorage
partialize(s) ==
    LET isActive == s.status = "running" \/ s.isWaitingForInput
    IN  [ activeTaskId      |-> IF isActive THEN s.activeTaskId ELSE Null,
          workflowType      |-> IF isActive THEN s.workflowType ELSE Null,
          status            |-> IF isActive THEN s.status ELSE "idle",
          progress          |-> IF isActive THEN s.progress ELSE 0,
          steps             |-> IF isActive THEN s.steps ELSE << >>,
          isWaitingForInput |-> s.isWaitingForInput ]

\* persist's hydration at store creation: the persisted fields over initialState
rehydrate(b) ==
    [initialState EXCEPT !.activeTaskId = b.activeTaskId,
                         !.workflowType = b.workflowType,
                         !.status = b.status,
                         !.progress = b.progress,
                         !.steps = b.steps,
                         !.isWaitingForInput = b.isWaitingForInput]

----------------------------------------------------------------------------
(* hooks/useStreaming.ts: the frames and handleMessage *)

Frame(type) ==
    [ type |-> type, progress |-> Undefined, message |-> Null, status |-> Null,
      interaction_type |-> Null, result |-> Null, error |-> Null,
      content |-> Null, filename |-> Null ]

\* The frames the server sends in the model. A progress value comes with a
\* fixed message text, so that message is a function of progress.
ProgressFrames ==
    { [Frame("progress") EXCEPT !.progress = 10, !.message = ""],
      [Frame("progress") EXCEPT !.progress = 40, !.message = "Planning"],
      [Frame("progress") EXCEPT !.progress = 100, !.message = ""],
      [Frame("progress") EXCEPT !.message = "Planning"] }

StatusFrames ==
    { [Frame("status") EXCEPT !.progress = 40, !.message = "Planning",
                              !.status = "waiting_for_input"],
      [Frame("status") EXCEPT !.message = "Planning", !.status = "completed"] }

InteractionFrames ==
    { [Frame("interaction_required") EXCEPT !.interaction_type = i] :
        i \in InteractionTypes }

CompleteFrames == { [Frame("complete") EXCEPT !.result = r] : r \in Results }

ErrorFrames == { [Frame("error") EXCEPT !.error = e] : e \in ErrorTexts }

ContentFrames ==
    { [Frame("code_chunk") EXCEPT !.content = c] : c \in Chunks }
    \cup { [Frame(t) EXCEPT !.filename = f] :
            t \in {"file_start", "file_end"}, f \in Filenames }

HeartbeatFrames == { Frame("heartbeat") }

\* the frames of the progress socket, and all frames
TaskFrames ==
    ProgressFrames \cup StatusFrames \cup InteractionFrames \cup CompleteFrames
    \cup ErrorFrames \cup HeartbeatFrames

Frames == TaskFrames \cup ContentFrames

\* the frames that arrive while a recovery is under way
RecoveryFrames ==
    ProgressFrames \cup InteractionFrames \cup CompleteFrames \cup ErrorFrames

\* the frames of a task that streams its files
StreamFrames ==
    ContentFrames \cup ProgressFrames \cup InteractionFrames
    \cup CompleteFrames \cup ErrorFrames

\* message.message || ''
OrEmpty(text) == IF text = Null THEN "" ELSE text

\* String.prototype.trim on the texts of the model
Trim(text) == IF text = " " THEN "" ELSE text

\* message.message && message.message.trim()
HasText(text) == text # Null /\ text # "" /\ Trim(text) # ""

\* the 'progress' and 'status' cases; they differ in the log entry's type
ApplyProgress(s, m, logType) ==
    IF m.progress # Undefined
    THEN LET s1 == updateProgress(s, m.progress, OrEmpty(m.message))
         IN  IF HasText(m.message)
             THEN addActivityLog(s1, <<"", m.message>>, m.progress, logType)
             ELSE s1
    ELSE s

\* a bug: the status field of a status frame is taken as the task's status
ApplyStatus_FollowsField(s, m) ==
    IF m.status \in {"completed", "error"}
    THEN setStatus(ApplyProgress(s, m, "info"), m.status)
    ELSE ApplyProgress(s, m, "info")

\* the 'status' case: the status field is only written to the console
ApplyStatus(s, m) == ApplyProgress(s, m, "info")

ApplyInteraction(s, m) ==
    setPendingInteraction(
        addActivityLog(s, <<"Waiting for input: ", m.interaction_type>>, 0, "info"),
        m.interaction_type)

\* a bug: the completion does not force the progress to 100
ApplyComplete_KeepProgress(s, m) ==
    addActivityLog(clearInteraction(setResult(setStatus(s, "completed"), m.result)),
                   <<"Workflow completed successfully!", "">>, 100, "success")


ApplyComplete(s, m) ==
    LET s1 == setStatus(s, "completed")
        s2 == setResult(s1, m.result)
        s3 == clearInteraction(s2)
        s4 == updateProgress(s3, 100, "Workflow completed successfully")
    IN  addActivityLog(s4, <<"Workflow completed successfully!", "">>, 100, "success")

\* a bug: the failure leaves the pending interaction in place
ApplyError_KeepInteraction(s, m) ==
    IF m.error = TaskNotFound THEN reset(s)
    ELSE addActivityLog(setError(setStatus(s, "error"), m.error),
                        <<"Error: ", m.error>>, 0, "error")


ApplyError(s, m) ==
    IF m.error = TaskNotFound
    THEN reset(s)
    ELSE LET s1 == setStatus(s, "error")
             s2 == setError(s1, m.error)
             s3 == clearInteraction(s2)
         IN  addActivityLog(s3, <<"Error: ", m.error>>, 0, "error")

handleMessage(s, m) ==
    CASE m.type = "progress" -> ApplyProgress(s, m, "progress")
      [] m.type = "status" -> ApplyStatus(s, m)
      [] m.type = "interaction_required" -> ApplyInteraction(s, m)
      [] m.type = "complete" -> ApplyComplete(s, m)
      [] m.type = "error" -> ApplyError(s, m)
      [] m.type = "code_chunk" ->
            IF m.content # Null /\ m.content # ""
            THEN appendStreamedCode(s, m.content) ELSE s
      [] m.type = "file_start" ->
            IF m.filename # Null /\ m.filename # ""
            THEN setCurrentFile(s, m.filename) ELSE s
      [] m.type = "file_end" ->
            IF m.filename # Null /\ m.filename # ""
            THEN setCurrentFile(addGeneratedFile(s, m.filename), Null) ELSE s
      [] OTHER -> s

\* status === 'completed' || status === 'error'
isFinished(s) == s.status \in {"completed", "error"}

\* workflowUrl and codeStreamUrl: both are the task's endpoint or null; the
\* endpoint is identified by the task id
EffectiveUrl(s) ==
    IF s.activeTaskId # Null /\ ~isFinished(s) THEN s.activeTaskId ELSE Null

----------------------------------------------------------------------------
(* hooks/useWebSocket.ts and the effects of useStreaming *)

\* a useWebSocket instance: url is the url it was last rendered with,
\* readyState the state of wsRef.current ("closed" when wsRef.current is null)
NoSocket == [url |-> Null, readyState |-> "closed"]

\* the url effect: it runs when url changes; its cleanup is disconnect(),
\* then connect() when url is set, disconnect() when it is null
WsUrlEffect(w, url) ==
    IF url = w.url THEN w
    ELSE IF url # Null THEN [url |-> url, readyState |-> "connecting"]
    ELSE NoSocket

\* the taskId effect: it runs when taskId changes (and on mount)
TaskIdEffectFires(s, ref) == s.activeTaskId # Null /\ s.activeTaskId # ref

TaskIdEffect(s, ref) ==
    IF TaskIdEffectFires(s, ref) THEN setStatus(s, "running") ELSE s

\* the panel that owns isSubmitting is rendered by the streaming pages as
\* pendingInteraction && activeTaskId && <InteractionPanel .../>
PanelMounted(s, pg) ==
    pg \in StreamingPages /\ s.pendingInteraction # Null /\ s.activeTaskId # Null

\* a respond call in flight: own tells that the panel instance that issued
\* it is still mounted
Stale(reqs) == { [r EXCEPT !.own = FALSE] : r \in reqs }

\* A handler has left the store as s on page pg, whose hooks held ref and w:
\* the render that follows and its effects (the url effects, the taskId
\* effect, and the url effects of the render that setStatus causes), and the
\* write of the persisted projection
Render(s, pg, ref, w, reqs, submitting) ==
    /\ store' = IF pg \in StreamingPages THEN TaskIdEffect(s, ref) ELSE s
    /\ prevTaskIdRef' = IF pg \in StreamingPages THEN s.activeTaskId ELSE Null
    /\ ws' = IF pg \in StreamingPages
             THEN [ch \in Channels |->
                     WsUrlEffect(WsUrlEffect(w[ch], EffectiveUrl(s)),
                                 EffectiveUrl(store'))]
             ELSE [ch \in Channels |-> NoSocket]
    /\ blob' = partialize(store')
    /\ respondReqs' = IF PanelMounted(store', pg) THEN reqs ELSE Stale(reqs)
    /\ isSubmitting' = (PanelMounted(store', pg) /\ submitting)

\* the render after a handler that ran on the current page
Commit(s) == Render(s, page, prevTaskIdRef, ws, respondReqs, isSubmitting)

NoRequest == [pending |-> FALSE, activeTaskId |-> Null, workflowType |-> Null]

initialRecoveryState ==
    [isRecovering |-> FALSE, recoveredTaskId |-> Null, error |-> Null]

----------------------------------------------------------------------------
(* hooks/useWebSocket.ts, one instance event by event *)

\* wsRef.current === null
NoRef == [url |-> Null, readyState |-> "none"]

EmptyBag == [u \in TaskIds |-> 0]

\* The refs of an instance at its mount. wsRef is the socket wsRef.current
\* points to, with the url it was created for. closing counts, by url, the
\* sockets that close() was called on and whose close event is not yet
\* delivered; timers counts, by the url of the connect() it will call, the
\* reconnect timers that are pending; timeoutRef is the url of the timer
\* reconnectTimeoutRef.current names, while that timer is pending.
\* lastSignal is the last notification the owner got (isConnected, onOpen,
\* onClose).
freshChan ==
    [wsRef |-> NoRef, shouldReconnect |-> TRUE, reconnectAttempts |-> 0,
     timers |-> EmptyBag, timeoutRef |-> Null, closing |-> EmptyBag,
     lastSignal |-> "none"]

Live(w) == w.readyState \in {"connecting", "open"}

\* wsRef.current.close(): the close event of a live socket comes later
CloseRef(c) ==
    IF Live(c.wsRef)
    THEN [c EXCEPT !.closing[c.wsRef.url] = @ + 1, !.wsRef.readyState = "closed"]
    ELSE c

\* clearTimeout(reconnectTimeoutRef.current)
ClearTimeout(c) ==
    IF c.timeoutRef # Null
    THEN [c EXCEPT !.timers[c.timeoutRef] = @ - 1, !.timeoutRef = Null]
    ELSE c

disconnect(c) ==
    [CloseRef(ClearTimeout([c EXCEPT !.shouldReconnect = FALSE]))
        EXCEPT !.wsRef = NoRef]

\* the connect of the render with this url
connect(c, url) ==
    IF url = Null THEN c
    ELSE [CloseRef(c) EXCEPT !.shouldReconnect = TRUE,
                             !.wsRef = [url |-> url, readyState |-> "connecting"]]

\* the url effect of a mounted instance whose url goes from old to new: the
\* cleanup, then the effect
UrlEffect(c, old, new) ==
    IF new = old THEN c
    ELSE IF new # Null THEN connect(disconnect(c), new)
    ELSE disconnect(disconnect(c))

\* the url effect at the mount of an instance
MountEffect(url) ==
    IF url # Null THEN connect(freshChan, url) ELSE disconnect(freshChan)

CanReconnect(c) ==
    c.shouldReconnect /\ c.reconnectAttempts < maxReconnectAttempts

\* ws.onclose of a socket that connect created for url
onclose(c, url) ==
    LET c1 == [c EXCEPT !.lastSignal = "close"]
    IN  IF CanReconnect(c1)
        THEN [c1 EXCEPT !.timers[url] = @ + 1, !.timeoutRef = url]
        ELSE c1

\* ws.onopen
onopen(c) ==
    [c EXCEPT !.wsRef.readyState = "open", !.reconnectAttempts = 0,
              !.lastSignal = "open"]

\* the callback of a reconnect timer
ontimeout(c, url) ==
    connect([c EXCEPT !.reconnectAttempts = @ + 1], url)

----------------------------------------------------------------------------
(* The state after the first load of the application, nothing persisted *)

Init ==
    /\ store = initialState
    /\ blob = partialize(initialState)
    /\ page = "home"
    /\ prevTaskIdRef = Null
    /\ ws = [ch \in Channels |-> NoSocket]
    /\ recoveryState = initialRecoveryState
    /\ recoverReq = NoRequest
    /\ startReq = Null
    /\ respondReqs = {}
    /\ isSubmitting = FALSE
    /\ cancelReq = FALSE
    /\ chan = freshChan

----------------------------------------------------------------------------
(* Navigation and page load *)

\* react-router unmounts the page (the cleanup of the url effects is
\* disconnect()) and mounts page p with fresh hooks
Navigate(p) ==
    /\ p # page
    /\ page' = p
    /\ Render(store, p, Null, [ch \in Channels |-> NoSocket],
              Stale(respondReqs), FALSE)
    /\ UNCHANGED <<recoveryState, recoverReq, startReq, cancelReq>>

\* a bug: the mount effect starts a recovery for any persisted task
MountRecovers_AnyTask(s) == s.activeTaskId # Null

\* the mount effect of useTaskRecovery, on the values of the first render
MountRecovers(s) == s.activeTaskId # Null /\ s.status \in {"running", "pending"}

\* recoverTask up to its await
RecoverGuard(s) ==
    ~(s.activeTaskId = Null \/ s.status \in {"idle", "completed", "error"})

\* A page (re)load on route p: the store is created from localStorage, the
\* page's effects run, then Layout's mount effect starts the recovery
Reload(p) ==
    LET hydrated == rehydrate(blob)
        recovers == MountRecovers(hydrated)
        s == IF recovers THEN setNeedsRecovery(hydrated, TRUE) ELSE hydrated
    IN  /\ page' = p
        /\ Render(s, p, Null, [ch \in Channels |-> NoSocket], {}, FALSE)
        /\ recoverReq' =
              IF recovers /\ RecoverGuard(hydrated)
              THEN [pending |-> TRUE, activeTaskId |-> hydrated.activeTaskId,
                    workflowType |-> hydrated.workflowType]
              ELSE NoRequest
        /\ recoveryState' =
              IF recovers /\ RecoverGuard(hydrated)
              THEN [isRecovering |-> TRUE, recoveredTaskId |-> Null, error |-> Null]
              ELSE initialRecoveryState
        /\ startReq' = Null
        /\ cancelReq' = FALSE

----------------------------------------------------------------------------
(* pages/ChatPlanningPage.tsx, pages/PaperToCodePage.tsx: start and cancel *)

StepsOf(workflowType) ==
    IF workflowType = "paper-to-code" THEN PAPER_TO_CODE_STEPS
    ELSE CHAT_PLANNING_STEPS

\* handleSubmit / handleStart up to the await: reset(); setSteps(...).
\* The inputs are disabled while status is running.
HandleStart ==
    /\ page \in StreamingPages
    /\ store.status # "running"
    /\ startReq = Null
    /\ startReq' = page
    /\ Commit(setSteps(reset(store), StepsOf(page)))
    /\ UNCHANGED <<page, recoveryState, recoverReq, cancelReq>>

\* the start call returns task id id: setActiveTask(id, type)
StartOk(id) ==
    /\ startReq # Null
    /\ startReq' = Null
    /\ Commit(setActiveTask(store, id, startReq))
    /\ UNCHANGED <<page, recoveryState, recoverReq, cancelReq>>

\* the start call throws: a toast, the store is not touched
StartFail ==
    /\ startReq # Null
    /\ startReq' = Null
    /\ UNCHANGED <<store, blob, page, prevTaskIdRef, ws, recoveryState,
                   recoverReq, respondReqs, isSubmitting, cancelReq>>

\* handleCancelTask up to the await; the button shows while status is running
HandleCancelTask ==
    /\ page \in StreamingPages
    /\ store.status = "running"
    /\ store.activeTaskId # Null
    /\ ~cancelReq
    /\ cancelReq' = TRUE
    /\ UNCHANGED <<store, blob, page, prevTaskIdRef, ws, recoveryState,
                   recoverReq, startReq, respondReqs, isSubmitting>>

\* a bug: the acknowledged cancel only sets the status
CancelOk_OnlyIdle ==
    /\ cancelReq
    /\ cancelReq' = FALSE
    /\ Commit(setStatus(store, "idle"))
    /\ UNCHANGED <<page, recoveryState, recoverReq, startReq>>

\* the cancel call is acknowledged: setStatus('idle'); reset()
CancelOk ==
    /\ cancelReq
    /\ cancelReq' = FALSE
    /\ Commit(reset(setStatus(store, "idle")))
    /\ UNCHANGED <<page, recoveryState, recoverReq, startReq>>

\* a bug: the failed cancel resets the store all the same
CancelFail_Resets ==
    /\ cancelReq
    /\ cancelReq' = FALSE
    /\ Commit(reset(store))
    /\ UNCHANGED <<page, recoveryState, recoverReq, startReq>>

\* the cancel call throws: a toast, the store is not touched
CancelFail ==
    /\ cancelReq
    /\ cancelReq' = FALSE
    /\ UNCHANGED <<store, blob, page, prevTaskIdRef, ws, recoveryState,
                   recoverReq, startReq, respondReqs, isSubmitting>>

----------------------------------------------------------------------------
(* The two sockets of useStreaming *)

\* ws.onopen
WsOnOpen(ch) ==
    /\ ws[ch].readyState = "connecting"
    /\ ws' = [ws EXCEPT ![ch].readyState = "open"]
    /\ UNCHANGED <<store, blob, page, prevTaskIdRef, recoveryState, recoverReq,
                   startReq, respondReqs, isSubmitting, cancelReq>>

\* ws.onmessage with a frame that parses: handleMessage, on either socket
WsOnMessage(ch, m) ==
    /\ ws[ch].readyState = "open"
    /\ Commit(handleMessage(store, m))
    /\ UNCHANGED <<page, recoveryState, recoverReq, startReq, cancelReq>>

\* What a socket delivers is text. kind tells what JSON.parse makes of it:
\* "invalid" is not JSON, "null" is the JSON text null, "object" is the
\* encoding of frame value
RawFrame(kind, value) == [kind |-> kind, value |-> value]

UndecodableFrames ==
    { RawFrame("invalid", Frame("heartbeat")), RawFrame("null", Frame("heartbeat")) }

\* JSON.parse(event.data): it throws on text that is not JSON
JSONParse(raw) ==
    CASE raw.kind = "invalid" -> [threw |-> TRUE, message |-> Null]
      [] raw.kind = "null" -> [threw |-> FALSE, message |-> Null]
      [] OTHER -> [threw |-> FALSE, message |-> raw.value]

\* a bug: text that does not parse fails the task
onmessage_FailsTask(s, raw) ==
    LET parsed == JSONParse(raw)
    IN  IF parsed.threw \/ parsed.message = Null
        THEN setError(setStatus(s, "error"), "Invalid frame")
        ELSE handleMessage(s, parsed.message)

\* the body of ws.onmessage: the try block ends at the first throw, that of
\* JSON.parse or that of message.type on null; the catch only logs
onmessage(s, raw) ==
    LET parsed == JSONParse(raw)
    IN  IF parsed.threw THEN s
        ELSE IF parsed.message = Null THEN s
        ELSE handleMessage(s, parsed.message)

\* ws.onmessage with any text, on either socket
WsOnData(ch, raw) ==
    /\ ws[ch].readyState = "open"
    /\ Commit(onmessage(store, raw))
    /\ UNCHANGED <<page, recoveryState, recoverReq, startReq, cancelReq>>

----------------------------------------------------------------------------
(* The socket of the progress channel, event by event *)

ProgressChannel == "workflow"

\* the instance of a mounted page follows the url it is rendered with
ChanFollows ==
    chan' = UrlEffect(chan, ws[ProgressChannel].url, ws'[ProgressChannel].url)

\* the instance of the page that mounts; no instance off the workflow pages
ChanMounts ==
    chan' = IF page' \in StreamingPages
            THEN MountEffect(ws'[ProgressChannel].url)
            ELSE freshChan

\* the open event of the socket
ChanOnOpen ==
    /\ chan.wsRef.readyState = "connecting"
    /\ chan' = onopen(chan)
    /\ UNCHANGED <<store, blob, page, prevTaskIdRef, ws, recoveryState,
                   recoverReq, startReq, respondReqs, isSubmitting, cancelReq>>

\* the close event of a socket that nobody closed: the server or the
\* network ends it, or the connection attempt fails
ChanOnClose ==
    /\ Live(chan.wsRef)
    /\ chan' = onclose([chan EXCEPT !.wsRef.readyState = "closed"], chan.wsRef.url)
    /\ UNCHANGED <<store, blob, page, prevTaskIdRef, ws, recoveryState,
                   recoverReq, startReq, respondReqs, isSubmitting, cancelReq>>

\* the close event of a socket that close() was called on
ChanLateClose(url) ==
    /\ chan.closing[url] > 0
    /\ chan' = onclose([chan EXCEPT !.closing[url] = @ - 1], url)
    /\ UNCHANGED <<store, blob, page, prevTaskIdRef, ws, recoveryState,
                   recoverReq, startReq, respondReqs, isSubmitting, cancelReq>>

\* a reconnect timer fires: the one reconnectTimeoutRef names (latest) or
\* an earlier one
ChanTimeout(url, latest) ==
    /\ IF latest
       THEN /\ chan.timeoutRef = url
            /\ chan' = ontimeout([chan EXCEPT !.timers[url] = @ - 1,
                                              !.timeoutRef = Null], url)
       ELSE /\ chan.timers[url] > (IF chan.timeoutRef = url THEN 1 ELSE 0)
            /\ chan' = ontimeout([chan EXCEPT !.timers[url] = @ - 1], url)
    /\ UNCHANGED <<store, blob, page, prevTaskIdRef, ws, recoveryState,
                   recoverReq, startReq, respondReqs, isSubmitting, cancelReq>>

\* ws.onmessage of the open socket with a frame that parses
ChanOnMessage(m) ==
    /\ chan.wsRef.readyState = "open"
    /\ Commit(handleMessage(store, m))
    /\ ChanFollows
    /\ UNCHANGED <<page, recoveryState, recoverReq, startReq, cancelReq>>

----------------------------------------------------------------------------
(* hooks/useTaskRecovery.ts: recoverTask after its await *)

TaskStatus(status) ==
    [status |-> status, progress |-> 0, message |-> "", result |-> Null,
     error |-> Null]

StatusResponses ==
    { [TaskStatus("running") EXCEPT !.progress = p, !.message = m] :
        p \in {40}, m \in {"Planning"} }
    \cup { [TaskStatus("completed") EXCEPT !.result = r] : r \in Results \cup {Null} }
    \cup { [TaskStatus("error") EXCEPT !.error = e] : e \in {"OOM", Null} }
    \cup { TaskStatus(st) : st \in {"cancelled", "waiting_for_input", "pending"} }

RestoreSteps(s, workflowType) ==
    IF workflowType \in WorkflowTypes THEN setSteps(s, StepsOf(workflowType))
    ELSE s

\* x || y
OrElse(x, y) == IF x = Null \/ x = "" THEN y ELSE x

\* a bug: an unknown status ends the recovery and keeps the task
RecoverStore_UnknownKeepsTask(s, req, taskStatus) ==
    CASE taskStatus.status = "running" ->
            setNeedsRecovery(
              setStatus(
                updateProgress(RestoreSteps(s, req.workflowType),
                               taskStatus.progress, taskStatus.message),
                "running"),
              FALSE)
      [] taskStatus.status = "completed" ->
            setNeedsRecovery(
              setResult(
                setStatus(
                  updateProgress(RestoreSteps(s, req.workflowType), 100, "Completed"),
                  "completed"),
                OrElse(taskStatus.result, Null)),
              FALSE)
      [] taskStatus.status = "error" ->
            setNeedsRecovery(
              setError(setStatus(s, "error"),
                       OrElse(taskStatus.error, "Unknown error")),
              FALSE)
      [] OTHER -> setNeedsRecovery(s, FALSE)

\* the store after the branch taken for taskStatus
RecoverStore(s, req, taskStatus) ==
    CASE taskStatus.status = "running" ->
            setNeedsRecovery(
              setStatus(
                updateProgress(RestoreSteps(s, req.workflowType),
                               taskStatus.progress, taskStatus.message),
                "running"),
              FALSE)
      [] taskStatus.status = "completed" ->
            setNeedsRecovery(
              setResult(
                setStatus(
                  updateProgress(RestoreSteps(s, req.workflowType), 100, "Completed"),
                  "completed"),
                OrElse(taskStatus.result, Null)),
              FALSE)
      [] taskStatus.status = "error" ->
            setNeedsRecovery(
              setError(setStatus(s, "error"),
                       OrElse(taskStatus.error, "Unknown error")),
              FALSE)
      [] OTHER -> reset(s)

\* the recoveryState after the branch taken for taskStatus
RecoverResult(req, taskStatus) ==
    CASE taskStatus.status \in {"running", "completed"} ->
            [isRecovering |-> FALSE, recoveredTaskId |-> req.activeTaskId,
             error |-> Null]
      [] taskStatus.status = "error" ->
            [isRecovering |-> FALSE, recoveredTaskId |-> req.activeTaskId,
             error |-> OrElse(taskStatus.error, Null)]
      [] OTHER -> initialRecoveryState

\* getStatus resolves with taskStatus
RecoverResponse(taskStatus) ==
    /\ recoverReq.pending
    /\ recoverReq' = NoRequest
    /\ recoveryState' = RecoverResult(recoverReq, taskStatus)
    /\ Commit(RecoverStore(store, recoverReq, taskStatus))
    /\ UNCHANGED <<page, startReq, cancelReq>>

\* a bug: the failed query is shown as an error
RecoverCatch_ShowError(s) == setError(s, "Network Error")

\* the store after the catch branch
RecoverCatch(s) == reset(s)

\* getStatus rejects (not found, network error, timeout): the catch branch
RecoverFailure ==
    /\ recoverReq.pending
    /\ recoverReq' = NoRequest
    /\ recoveryState' = initialRecoveryState
    /\ Commit(RecoverCatch(store))
    /\ UNCHANGED <<page, startReq, cancelReq>>

----------------------------------------------------------------------------
(* components/interaction: InteractionPanel, InlineChatInteraction *)

\* handleSubmit(action) / handleSkip up to the await; every button is
\* disabled while isSubmitting
HandleSubmit(action) ==
    /\ PanelMounted(store, page)
    /\ ~isSubmitting
    /\ isSubmitting' = TRUE
    /\ respondReqs' = respondReqs \cup {[action |-> action, own |-> TRUE]}
    /\ UNCHANGED <<store, blob, page, prevTaskIdRef, ws, recoveryState,
                   recoverReq, startReq, cancelReq>>

\* a bug: the answered interaction is not cleared
RespondDone_KeepInteraction(s, action) ==
    IF action = "skip"
    THEN addActivityLog(s, <<"Skipped interaction", "">>, 0, "info")
    ELSE addActivityLog(s, <<"Submitted: ", action>>, 0, "success")

\* a bug: an answered interaction puts the task back to running
RespondDone_ForcesRunning(s, action) ==
    setStatus(clearInteraction(addActivityLog(s, <<"Submitted: ", action>>, 0, "success")),
              "running")

\* the store after a respond call resolved
RespondDone(s, action) ==
    clearInteraction(
        IF action = "skip"
        THEN addActivityLog(s, <<"Skipped interaction", "">>, 0, "info")
        ELSE addActivityLog(s, <<"Submitted: ", action>>, 0, "success"))

\* respondToInteraction resolves: log, clearInteraction, setIsSubmitting(false)
RespondOk(r) ==
    /\ r \in respondReqs
    /\ Render(RespondDone(store, r.action), page, prevTaskIdRef, ws,
              respondReqs \ {r}, isSubmitting /\ ~r.own)
    /\ UNCHANGED <<page, recoveryState, recoverReq, startReq, cancelReq>>

\* a bug: a failed request clears the interaction as a successful one does
RespondFail_ClearsInteraction(r) ==
    /\ r \in respondReqs
    /\ respondReqs' = respondReqs \ {r}
    /\ isSubmitting' = (isSubmitting /\ ~r.own)
    /\ store' = clearInteraction(store)
    /\ UNCHANGED <<blob, page, prevTaskIdRef, ws, recoveryState,
                   recoverReq, startReq, cancelReq>>

\* respondToInteraction rejects: a toast, setIsSubmitting(false)
RespondFail(r) ==
    /\ r \in respondReqs
    /\ respondReqs' = respondReqs \ {r}
    /\ isSubmitting' = (isSubmitting /\ ~r.own)
    /\ UNCHANGED <<store, blob, page, prevTaskIdRef, ws, recoveryState,
                   recoverReq, startReq, cancelReq>>

----------------------------------------------------------------------------

\* the store holds at most maxLog log entries, maxStream chunks and files
Within(maxLog, maxStream) ==
    /\ Len(store.activityLogs) <= maxLog
    /\ Len(store.streamedCode) <= maxStream
    /\ Len(store.generatedFiles) <= maxStream

\* The live session: a task is started, its frames arrive, its
\* interactions are answered, the user moves between the pages
Next ==
    \/ \E p \in Pages : Navigate(p) /\ UNCHANGED chan
    \/ HandleStart /\ UNCHANGED chan
    \/ \E id \in TaskIds : StartOk(id) /\ UNCHANGED chan
    \/ StartFail /\ UNCHANGED chan
    \/ \E ch \in Channels : WsOnOpen(ch) /\ UNCHANGED chan
    \/ \E ch \in Channels, m \in TaskFrames :
            WsOnMessage(ch, m) /\ Within(MaxLog, 0)' /\ UNCHANGED chan
    \/ \E action \in RespondActions : HandleSubmit(action) /\ UNCHANGED chan
    \/ \E r \in respondReqs : RespondOk(r) /\ Within(MaxLog, 0)' /\ UNCHANGED chan
    \/ \E r \in respondReqs : RespondFail(r) /\ UNCHANGED chan

Spec == Init /\ [][Next]_vars

\* Page loads and the recovery of a persisted task
NextRecovery ==
    \/ \E p \in Pages : Navigate(p) /\ UNCHANGED chan
    \/ \E p \in Pages : Reload(p) /\ UNCHANGED chan
    \/ HandleStart /\ UNCHANGED chan
    \/ \E id \in {"t1"} : StartOk(id) /\ UNCHANGED chan
    \/ \E ch \in Channels : WsOnOpen(ch) /\ UNCHANGED chan
    \/ \E ch \in Channels, m \in RecoveryFrames :
            WsOnMessage(ch, m) /\ Within(MaxLog, 0)' /\ UNCHANGED chan
    \/ \E taskStatus \in StatusResponses : RecoverResponse(taskStatus) /\ UNCHANGED chan
    \/ RecoverFailure /\ UNCHANGED chan

SpecRecovery == Init /\ [][NextRecovery]_vars

\* A task that streams code and files on either socket
NextStream ==
    \/ \E p \in Pages : Navigate(p) /\ UNCHANGED chan
    \/ HandleStart /\ UNCHANGED chan
    \/ \E id \in {"t1"} : StartOk(id) /\ UNCHANGED chan
    \/ \E ch \in Channels : WsOnOpen(ch) /\ UNCHANGED chan
    \/ \E ch \in Channels, m \in StreamFrames :
            WsOnMessage(ch, m) /\ Within(MaxLog, MaxStream)' /\ UNCHANGED chan
    \/ \E ch \in Channels, raw \in UndecodableFrames :
            WsOnData(ch, raw) /\ UNCHANGED chan

SpecStream == Init /\ [][NextStream]_vars

\* The runs of one chat-planning task with a plan review: its frames in any
\* order and number, the review confirmed
ScenarioFrames ==
    { [Frame("progress") EXCEPT !.progress = 40, !.message = "Planning"],
      [Frame("interaction_required") EXCEPT !.interaction_type = "plan_review"],
      [Frame("complete") EXCEPT !.result = "r1"] }

NextScenario ==
    \/ \E p \in {"home", "chat-planning"} : Navigate(p) /\ UNCHANGED chan
    \/ HandleStart /\ UNCHANGED chan
    \/ \E id \in {"t1"} : StartOk(id) /\ UNCHANGED chan
    \/ \E ch \in Channels : WsOnOpen(ch) /\ UNCHANGED chan
    \/ \E ch \in Channels, m \in ScenarioFrames :
            WsOnMessage(ch, m) /\ Within(ScenarioLog, 0)' /\ UNCHANGED chan
    \/ HandleSubmit("confirm") /\ UNCHANGED chan
    \/ \E r \in respondReqs : RespondOk(r) /\ Within(ScenarioLog, 0)' /\ UNCHANGED chan
    \/ \E r \in respondReqs : RespondFail(r) /\ UNCHANGED chan

SpecScenario == Init /\ [][NextScenario]_vars

\* The progress channel of the chat-planning page, event by event. Here ws
\* keeps the url each instance is rendered with, and chan is its socket.
ChannelFrames ==
    { [Frame("interaction_required") EXCEPT !.interaction_type = "plan_review"],
      [Frame("complete") EXCEPT !.result = "r1"],
      [Frame("error") EXCEPT !.error = TaskNotFound] }

BagSize(bag) == bag["t1"] + bag["t2"]

ChanFits == BagSize(chan.timers) + BagSize(chan.closing) <= MaxPending

NextChannel ==
    \/ \E p \in {"home", "chat-planning"} : Navigate(p) /\ ChanMounts /\ ChanFits'
    \/ HandleStart /\ ChanFollows /\ ChanFits'
    \/ \E id \in TaskIds : StartOk(id) /\ ChanFollows /\ ChanFits'
    \/ ChanOnOpen
    \/ ChanOnClose /\ ChanFits'
    \/ \E url \in TaskIds : ChanLateClose(url) /\ ChanFits'
    \/ \E url \in TaskIds, latest \in BOOLEAN : ChanTimeout(url, latest) /\ ChanFits'
    \/ \E m \in ChannelFrames :
            ChanOnMessage(m) /\ Within(MaxLog, 0)' /\ ChanFits'

SpecChannel == Init /\ [][NextChannel]_vars

\* A task that the user cancels, in any of its states
CancelFrames ==
    { [Frame("progress") EXCEPT !.progress = 40, !.message = "Planning"],
      [Frame("interaction_required") EXCEPT !.interaction_type = "plan_review"],
      [Frame("complete") EXCEPT !.result = "r1"],
      [Frame("error") EXCEPT !.error = "OOM"] }

NextCancel ==
    \/ \E p \in Pages : Navigate(p) /\ UNCHANGED chan
    \/ HandleStart /\ UNCHANGED chan
    \/ \E id \in {"t1"} : StartOk(id) /\ UNCHANGED chan
    \/ \E ch \in Channels : WsOnOpen(ch) /\ UNCHANGED chan
    \/ \E ch \in Channels, m \in CancelFrames :
            WsOnMessage(ch, m) /\ Within(MaxLog, 0)' /\ UNCHANGED chan
    \/ HandleCancelTask /\ UNCHANGED chan
    \/ CancelOk /\ UNCHANGED chan
    \/ CancelFail /\ UNCHANGED chan

SpecCancel == Init /\ [][NextCancel]_vars

----------------------------------------------------------------------------
\* status frames with each value of the status field
StatusReports ==
    StatusFrames
    \cup { [Frame("status") EXCEPT !.progress = 10, !.status = "completed"],
           [Frame("status") EXCEPT !.progress = 40, !.message = "Planning",
                                   !.status = "error"] }

\* The answers to a plan review: confirmed or skipped, succeeding or
\* failing, while the task goes on and reports its status
RespondFrames ==
    { [Frame("progress") EXCEPT !.progress = 10],
      [Frame("progress") EXCEPT !.progress = 40, !.message = "Planning"],
      [Frame("interaction_required") EXCEPT !.interaction_type = "plan_review"],
      [Frame("complete") EXCEPT !.result = "r1"] }
    \cup StatusReports

NextRespond ==
    \/ \E p \in {"home", "chat-planning"} : Navigate(p) /\ UNCHANGED chan
    \/ HandleStart /\ UNCHANGED chan
    \/ \E id \in {"t1"} : StartOk(id) /\ UNCHANGED chan
    \/ \E ch \in Channels : WsOnOpen(ch) /\ UNCHANGED chan
    \/ \E ch \in Channels, m \in RespondFrames :
            WsOnMessage(ch, m) /\ Within(MaxLog, 0)' /\ UNCHANGED chan
    \/ \E action \in RespondActions : HandleSubmit(action) /\ UNCHANGED chan
    \/ \E r \in respondReqs : RespondOk(r) /\ Within(MaxLog, 0)' /\ UNCHANGED chan
    \/ \E r \in respondReqs : RespondFail(r) /\ UNCHANGED chan

SpecRespond == Init /\ [][NextRespond]_vars

----------------------------------------------------------------------------


\* A task of either workflow whose progress frames carry every value of
\* 0..100, in any order
PercentFrames == { [Frame("progress") EXCEPT !.progress = p] : p \in 0..100 }

NextProgress ==
    \/ \E p \in Pages : Navigate(p) /\ UNCHANGED chan
    \/ HandleStart /\ UNCHANGED chan
    \/ \E id \in {"t1"} : StartOk(id) /\ UNCHANGED chan
    \/ \E ch \in Channels : WsOnOpen(ch) /\ UNCHANGED chan
    \/ \E ch \in Channels, m \in PercentFrames : WsOnMessage(ch, m) /\ UNCHANGED chan

SpecProgress == Init /\ [][NextProgress]_vars

----------------------------------------------------------------------------


\* The whole life of a task: starts, frames, page loads with their recovery,
\* answers, cancels and the resets they bring
LifeFrames ==
    { [Frame("progress") EXCEPT !.progress = 10],
      [Frame("interaction_required") EXCEPT !.interaction_type = "plan_review"],
      [Frame("complete") EXCEPT !.result = "r1"],
      [Frame("error") EXCEPT !.error = TaskNotFound] }

NextLife ==
    \/ \E p \in Pages : Navigate(p) /\ UNCHANGED chan
    \/ \E p \in Pages : Reload(p) /\ UNCHANGED chan
    \/ HandleStart /\ UNCHANGED chan
    \/ \E id \in {"t1"} : StartOk(id) /\ UNCHANGED chan
    \/ \E ch \in Channels : WsOnOpen(ch) /\ UNCHANGED chan
    \/ \E ch \in Channels, m \in LifeFrames :
            WsOnMessage(ch, m) /\ Within(MaxLog, 0)' /\ UNCHANGED chan
    \/ \E taskStatus \in StatusResponses : RecoverResponse(taskStatus) /\ UNCHANGED chan
    \/ RecoverFailure /\ UNCHANGED chan
    \/ HandleSubmit("confirm") /\ UNCHANGED chan
    \/ \E r \in respondReqs : RespondOk(r) /\ Within(MaxLog, 0)' /\ UNCHANGED chan
    \/ \E r \in respondReqs : RespondFail(r) /\ UNCHANGED chan
    \/ HandleCancelTask /\ UNCHANGED chan
    \/ CancelOk /\ UNCHANGED chan
    \/ CancelFail /\ UNCHANGED chan

SpecLife == Init /\ [][NextLife]_vars

----------------------------------------------------------------------------


\* renderContent: the buttons the panel shows for an interaction type, by
\* the action they send (plan review: confirm; questions: skip)
OfferedActions(type) == IF type = "plan_review" THEN {"confirm"} ELSE {"skip"}

\* the interaction type whose panel offers the action
AnsweredBy(action) == IF action = "confirm" THEN "plan_review" ELSE "requirement_questions"

\* no interaction of the type of frame m has been asked for in this log, and
\* no answer to one is in flight
FirstOfItsType(m) ==
    /\ \A k \in 1..Len(store.activityLogs) :
          store.activityLogs[k] # LogEntry(<<"Waiting for input: ", m.interaction_type>>, 0, "info")
    /\ \A r \in respondReqs : r.action \notin OfferedActions(m.interaction_type)

\* The answers to the interactions of a task, each type asked for once:
\* the user answers with the buttons of the panel shown, moves between the
\* pages while an answer is in flight, and the task may be found gone
GateFrames ==
    { [Frame("progress") EXCEPT !.progress = 10],
      [Frame("error") EXCEPT !.error = TaskNotFound] }

NextGate ==
    \/ \E p \in {"home", "chat-planning"} : Navigate(p) /\ UNCHANGED chan
    \/ HandleStart /\ UNCHANGED chan
    \/ \E id \in {"t1"} : StartOk(id) /\ UNCHANGED chan
    \/ \E ch \in Channels : WsOnOpen(ch) /\ UNCHANGED chan
    \/ \E ch \in Channels, m \in GateFrames : WsOnMessage(ch, m) /\ UNCHANGED chan
    \/ \E ch \in Channels, m \in InteractionFrames :
            FirstOfItsType(m) /\ WsOnMessage(ch, m) /\ Within(MaxLog, 0)' /\ UNCHANGED chan
    \/ \E action \in OfferedActions(store.pendingInteraction) :
            HandleSubmit(action) /\ UNCHANGED chan
    \/ \E r \in respondReqs : RespondOk(r) /\ Within(MaxLog, 0)' /\ UNCHANGED chan
    \/ \E r \in respondReqs : RespondFail(r) /\ UNCHANGED chan

SpecGate == Init /\ [][NextGate]_vars

----------------------------------------------------------------------------


\* The progress channel of a task that the user may cancel and start again
\* while the socket is reconnecting
BudgetFrames == { [Frame("complete") EXCEPT !.result = "r1"] }

NextBudget ==
    \/ \E p \in {"home", "chat-planning"} : Navigate(p) /\ ChanMounts /\ ChanFits'
    \/ HandleStart /\ ChanFollows /\ ChanFits'
    \/ \E id \in TaskIds : StartOk(id) /\ ChanFollows /\ ChanFits'
    \/ HandleCancelTask /\ UNCHANGED chan
    \/ CancelOk /\ ChanFollows /\ ChanFits'
    \/ CancelFail /\ UNCHANGED chan
    \/ ChanOnOpen
    \/ ChanOnClose /\ ChanFits'
    \/ \E url \in TaskIds : ChanLateClose(url) /\ ChanFits'
    \/ \E url \in TaskIds, latest \in BOOLEAN : ChanTimeout(url, latest) /\ ChanFits'
    \/ \E m \in BudgetFrames :
            ChanOnMessage(m) /\ Within(MaxLog, 0)' /\ ChanFits'

SpecBudget == Init /\ [][NextBudget]_vars

----------------------------------------------------------------------------


(* Properties *)

Max(a, b) == IF a >= b THEN a ELSE b

AllStepsCompleted(s) == \A i \in 1..Len(s.steps) : s.steps[i].status = "completed"

\* wsRef.current is null on both sockets: no connection exists
NoChannel == \A ch \in Channels : ws[ch].readyState = "closed"

SomeChannelOpen == \E ch \in Channels : ws[ch].readyState = "open"

WaitingEntry(i) == LogEntry(<<"Waiting for input: ", i>>, 0, "info")
CompletedEntry == LogEntry(<<"Workflow completed successfully!", "">>, 100, "success")
PlanningEntry == LogEntry(<<"", "Planning">>, 40, "progress")
SubmittedEntry(action) == LogEntry(<<"Submitted: ", action>>, 0, "success")

Planning40 == [Frame("progress") EXCEPT !.progress = 40, !.message = "Planning"]
PlanReview == [Frame("interaction_required") EXCEPT !.interaction_type = "plan_review"]
CompleteR1 == [Frame("complete") EXCEPT !.result = "r1"]
NotFoundFrame == [Frame("error") EXCEPT !.error = TaskNotFound]

\* C1: a progress or status frame that carries progress p, applied while the
\* status is running and the stored progress is q, leaves the stored
\* progress at max(p, q): the progress never decreases.
C1_ProgressNeverDecreases ==
    [][\A ch \in Channels, m \in ProgressFrames \cup StatusFrames :
          (WsOnMessage(ch, m) /\ m.progress # Undefined /\ store.status = "running")
          => store'.progress = Max(m.progress, store.progress)]_vars

\* C2: a complete frame applied while the task is running or waiting for
\* input yields status completed, progress 100, every step completed, the
\* frame's result stored and no pending interaction.
C2_CompleteIsAuthoritative ==
    [][\A ch \in Channels, m \in CompleteFrames :
          (WsOnMessage(ch, m) /\ (store.status = "running" \/ store.isWaitingForInput))
          => /\ store'.status = "completed"
             /\ store'.progress = 100
             /\ AllStepsCompleted(store')
             /\ store'.result = m.result
             /\ store'.pendingInteraction = Null
             /\ ~store'.isWaitingForInput]_vars

\* a task that was waiting for a plan review at progress 40 has been completed
C2_Witness ==
    /\ store.status = "completed"
    /\ store.progress = 100
    /\ store.result = "r1"
    /\ Len(store.steps) > 0
    /\ AllStepsCompleted(store)
    /\ store.pendingInteraction = Null
    /\ store.activityLogs = <<WaitingEntry("plan_review"), CompletedEntry>>

\* C3: the store holds one pending interaction at most; an interaction_required
\* frame makes the pending interaction the one of that frame, also when
\* another one was pending.
C3_LastInteractionWins ==
    [][\A ch \in Channels, m \in InteractionFrames :
          WsOnMessage(ch, m)
          => /\ store'.pendingInteraction = m.interaction_type
             /\ store'.pendingInteraction \in InteractionTypes]_vars

\* a second interaction_required frame has replaced a pending interaction
C3_Witness ==
    /\ store.activityLogs =
          <<WaitingEntry("plan_review"), WaitingEntry("requirement_questions")>>
    /\ store.pendingInteraction = "requirement_questions"

\* C4: applying a progress frame a second time changes nothing: the store
\* after the second application equals the store after the first (no
\* further log entry, the same status).
C4_ReapplyChangesNothing ==
    SomeChannelOpen =>
        \A m \in ProgressFrames :
            handleMessage(handleMessage(store, m), m) = handleMessage(store, m)

\* C5: after a page load with a persisted running task and a status query
\* that returns completed, no connection exists while the query is in flight
\* nor when it has returned, the store is completed with progress 100, all
\* steps completed and the result stored, and the status changes no more
\* while the task id stays.
C5_RecoveredCompletedWithoutChannel ==
    [][/\ recoverReq'.pending => NoChannel'
       /\ \A taskStatus \in StatusResponses :
            (taskStatus.status = "completed" /\ RecoverResponse(taskStatus))
            => /\ store'.status = "completed"
               /\ store'.progress = 100
               /\ AllStepsCompleted(store')
               /\ store'.result = taskStatus.result
               /\ NoChannel'
       /\ (/\ store.status = "completed"
           /\ store.activeTaskId # Null
           /\ recoveryState.recoveredTaskId = store.activeTaskId
           /\ store'.activeTaskId = store.activeTaskId)
          => store'.status = "completed"]_vars

\* C6: after a page load with a persisted running task, a status query that
\* fails leaves the store in its initial state (idle, no task id, no error)
\* and the recovery hook without an error.
C6_FailedQueryResetsSilently ==
    [][RecoverFailure
       => /\ store' = initialState
          /\ store'.activeTaskId = Null
          /\ store'.status = "idle"
          /\ store'.error = Null
          /\ recoveryState'.error = Null
          /\ ~recoveryState'.isRecovering]_vars

\* the query of a recovery is in flight and frames have arrived meanwhile
C6_Witness ==
    /\ recoverReq.pending
    /\ recoveryState.isRecovering
    /\ store.needsRecovery
    /\ store.status = "running"
    /\ store.progress = 40
    /\ store.activityLogs # << >>

\* C7: after a page load with a persisted running task and a status query
\* that returns status error with text E, the store has status error and
\* error E, and no connection exists while the recovery runs nor after it.
C7_RecoveredErrorWithoutChannel ==
    [][/\ recoveryState.isRecovering => NoChannel
       /\ \A taskStatus \in StatusResponses :
            (/\ taskStatus.status = "error"
             /\ taskStatus.error # Null
             /\ RecoverResponse(taskStatus))
            => /\ store'.status = "error"
               /\ store'.error = taskStatus.error
               /\ NoChannel']_vars

C10_NotFoundResetsEverything ==
    [][\A ch \in Channels : WsOnMessage(ch, NotFoundFrame) => store' = initialState]_vars

\* a connected task with progress, steps, log, streamed content, a result
\* and a pending interaction: the state such a frame finds
C10_Witness ==
    /\ SomeChannelOpen
    /\ store.progress = 10
    /\ store.activityLogs # << >>
    /\ store.streamedCode # << >>
    /\ store.generatedFiles # << >>
    /\ store.pendingInteraction # Null
    /\ store.result # Null

ErrorEntry(e) == LogEntry(<<"Error: ", e>>, 0, "error")

\* C11: an error frame whose text E is not the task-not-found text, applied
\* while the task is running or waiting for input, gives status error and
\* error E, clears the pending interaction, resets nothing (task id,
\* workflow type, steps and progress stay) and retries nothing (no socket
\* stays or is opened, no start or recovery is issued).
C11_ApplicationErrorIsTerminal ==
    [][\A ch \in Channels, m \in ErrorFrames :
          (/\ m.error # TaskNotFound
           /\ WsOnMessage(ch, m)
           /\ (store.status = "running" \/ store.isWaitingForInput))
          => /\ store'.status = "error"
             /\ store'.error = m.error
             /\ store'.pendingInteraction = Null
             /\ ~store'.isWaitingForInput
             /\ store'.activeTaskId = store.activeTaskId
             /\ store'.workflowType = store.workflowType
             /\ store'.steps = store.steps
             /\ store'.progress = store.progress
             /\ NoChannel'
             /\ startReq' = startReq
             /\ recoverReq' = recoverReq]_vars

\* a task that was waiting for a plan review has failed with the text OOM
C11_Witness ==
    /\ store.status = "error"
    /\ store.error = "OOM"
    /\ store.activeTaskId # Null
    /\ store.pendingInteraction = Null
    /\ store.activityLogs = <<WaitingEntry("plan_review"), ErrorEntry("OOM")>>

\* C12: once the status is completed or error it does not change, and after
\* completed the progress stays 100 with all steps completed, as long as the
\* task id stays the same (no reset, no new task).
C12_TerminalStatusIsAbsorbing ==
    [][(/\ store.status \in {"completed", "error"}
        /\ store.activeTaskId # Null
        /\ store'.activeTaskId = store.activeTaskId)
       => /\ store'.status = store.status
          /\ store.status = "completed" /\ store.progress = 100 /\ AllStepsCompleted(store)
             => (store'.progress = 100 /\ AllStepsCompleted(store'))]_vars

\* the steps of a template with the statuses updateProgress derives from p
StepsAt(workflowType, p) ==
    updateProgress(setSteps(initialState, StepsOf(workflowType)), p, "").steps

\* socket w exists and was created for task id
OpenedFor(w, id) == w.url = id /\ w.readyState \in {"connecting", "open"}

\* C13: after a page load with a persisted running task T of workflow type
\* W, a status query that returns running with progress p and message m
\* leaves steps equal to W's template with the statuses derived from p,
\* progress p, message m, status running, and both sockets created for T.
C13_RecoveredRunningReconnects ==
    [][\A taskStatus \in StatusResponses :
          (taskStatus.status = "running" /\ RecoverResponse(taskStatus))
          => /\ store'.steps = StepsAt(recoverReq.workflowType, taskStatus.progress)
             /\ store'.progress = taskStatus.progress
             /\ store'.message = taskStatus.message
             /\ store'.status = "running"
             /\ \A ch \in Channels : OpenedFor(ws'[ch], recoverReq.activeTaskId)]_vars

\* C14: whenever the status is completed or error, the persisted projection
\* is the inert one: status idle and no task id.
C14_TerminalProjectionIsInert ==
    store.status \in {"completed", "error"}
    => (blob.status = "idle" /\ blob.activeTaskId = Null)

\* C15: the effective url of both sockets is null whenever no task id is set
\* or the status is completed or error, and the task's url whenever a task
\* id is set and the task is running or waiting for input; the hooks are
\* rendered with it; and once it is null the instance holds no socket, has
\* reconnection off and has no reconnect timer pending.
C15_EffectiveUrlFollowsTheTask ==
    /\ (store.activeTaskId = Null \/ store.status \in {"completed", "error"})
       => EffectiveUrl(store) = Null
    /\ (store.activeTaskId # Null /\ (store.status = "running" \/ store.isWaitingForInput))
       => EffectiveUrl(store) = store.activeTaskId
    /\ page \in StreamingPages
       => /\ \A ch \in Channels : ws[ch].url = EffectiveUrl(store)
          /\ EffectiveUrl(store) = Null
             => /\ chan.wsRef = NoRef
                /\ ~chan.shouldReconnect
                /\ chan.timers = EmptyBag

\* C16: a close event schedules a reconnect only while reconnection is on
\* and the attempt counter is below the maximum; every reconnect attempt
\* adds one to the counter; every open sets it to zero; the counter, which
\* counts the attempts since the last open, never exceeds the maximum.
C16_ReconnectBudget ==
    [][/\ (ChanOnClose \/ \E url \in TaskIds : ChanLateClose(url))
          => (BagSize(chan'.timers) > BagSize(chan.timers) => CanReconnect(chan))
       /\ (\E url \in TaskIds, latest \in BOOLEAN : ChanTimeout(url, latest))
          => chan'.reconnectAttempts = chan.reconnectAttempts + 1
       /\ ChanOnOpen => chan'.reconnectAttempts = 0
       /\ chan'.reconnectAttempts <= maxReconnectAttempts]_vars

\* C17: the close event that finds the reconnect budget used up schedules
\* nothing, leaves the store alone and gives the owner a signal that is not
\* the signal of an ordinary close.
C17_ExhaustionIsSignalled ==
    [][(ChanOnClose /\ chan.shouldReconnect
                    /\ chan.reconnectAttempts >= maxReconnectAttempts)
       => /\ chan'.timers = chan.timers
          /\ store' = store
          /\ chan'.lastSignal # "close"]_vars

\* C18: from disconnect() to the next connect() of the owner, the instance
\* holds no socket and no pending reconnect timer, and no close event
\* schedules one.
C18_NoReconnectAfterClose ==
    [][/\ ~chan'.shouldReconnect
          => (chan'.wsRef = NoRef /\ chan'.timers = EmptyBag)
       /\ (~chan.shouldReconnect
           /\ (ChanOnClose \/ \E url \in TaskIds : ChanLateClose(url)))
          => chan'.timers = chan.timers]_vars

\* C19: text that does not decode is discarded: the store, its persisted
\* projection and both sockets are as before, and the socket it came on is
\* still open for the frames that follow.
C19_UndecodableFrameIsDiscarded ==
    [][\A ch \in Channels, raw \in UndecodableFrames :
          WsOnData(ch, raw)
          => /\ store' = store
             /\ blob' = blob
             /\ ws' = ws
             /\ ws'[ch].readyState = "open"]_vars

\* a connected task with progress, a log entry, streamed content and a
\* pending interaction: a state such text arrives in and leaves as it is
C19_Witness ==
    /\ \A ch \in Channels : ws[ch].readyState = "open"
    /\ store.status = "running"
    /\ store.progress = 40
    /\ store.activityLogs = <<PlanningEntry, WaitingEntry("plan_review")>>
    /\ store.streamedCode # << >>
    /\ store.pendingInteraction = "plan_review"

\* C20: the acknowledgement of a cancel call leaves the store in its initial
\* state in that one step, with the inert projection persisted and no
\* socket, whatever the state of the task when it arrives.
C20_CancelResetsAtOnce ==
    [][CancelOk
       => /\ store' = initialState
          /\ blob' = partialize(initialState)
          /\ NoChannel'
          /\ ~cancelReq']_vars

\* a cancel call is in flight for a task that has completed meanwhile
C20_Witness ==
    /\ cancelReq
    /\ store.status = "completed"
    /\ store.result = "r1"
    /\ store.progress = 100
    /\ store.activeTaskId # Null

SkippedEntry == LogEntry(<<"Skipped interaction", "">>, 0, "info")

\* C21: when a respond or skip request succeeds, the pending interaction is
\* cleared and nothing else of the task changes: status, progress, message
\* and steps are as before the response; the status is not forced to
\* running.
C21_RespondOnlyClearsInteraction ==
    [][\A r \in respondReqs :
          RespondOk(r)
          => /\ store'.pendingInteraction = Null
             /\ ~store'.isWaitingForInput
             /\ store'.status = store.status
             /\ store'.progress = store.progress
             /\ store'.message = store.message
             /\ store'.steps = store.steps
             /\ store'.activeTaskId = store.activeTaskId
             /\ store'.workflowType = store.workflowType
             /\ store'.result = store.result
             /\ store'.error = store.error]_vars

\* a skip has succeeded on a running task at progress 10: status, progress
\* and steps are those of before
C21_Witness ==
    /\ store.status = "running"
    /\ store.progress = 10
    /\ store.steps = StepsAt(store.workflowType, 10)
    /\ store.pendingInteraction = Null
    /\ store.activityLogs = <<WaitingEntry("plan_review"), SkippedEntry>>

\* C22: when a respond or skip request fails, the store is left as it was,
\* the pending interaction included, and the panel that sent the request
\* accepts a submit again: a retry needs no new interaction_required frame.
C22_FailedRespondKeepsInteraction ==
    [][\A r \in respondReqs :
          RespondFail(r)
          => /\ store' = store
             /\ store'.pendingInteraction = store.pendingInteraction
             /\ (r.own /\ PanelMounted(store, page))
                => (PanelMounted(store', page') /\ ~isSubmitting')
             /\ \A action \in RespondActions :
                  (r.own /\ PanelMounted(store, page))
                  => [action |-> action, own |-> TRUE] \notin respondReqs']_vars

\* a skip sent from the mounted panel is in flight while the plan review is
\* pending: the state a failure finds
C22_Witness ==
    /\ store.pendingInteraction = "plan_review"
    /\ store.isWaitingForInput
    /\ PanelMounted(store, page)
    /\ isSubmitting
    /\ respondReqs = {[action |-> "skip", own |-> TRUE]}
    /\ store.activityLogs = <<PlanningEntry, WaitingEntry("plan_review")>>

\* the greatest position of steps whose threshold is at most p, 0 when p is
\* below every threshold
GreatestReached(steps, p) ==
    LET reached == {i \in 1..Len(steps) : steps[i].progress <= p}
    IN  IF reached = {} THEN 0 ELSE CHOOSE i \in reached : \A j \in reached : j <= i

\* the reference mapping from a progress value to the step statuses
ReferenceStatuses(steps, p) ==
    [k \in 1..Len(steps) |->
        IF p >= 100 THEN "completed"
        ELSE IF GreatestReached(steps, p) = 0 THEN "pending"
        ELSE IF k < GreatestReached(steps, p) THEN "completed"
        ELSE IF k = GreatestReached(steps, p) THEN "active"
        ELSE "pending"]

\* C23: for every progress value of 0..100 and both step templates, the step
\* statuses that updateProgress computes are those of the reference mapping
\* (below the greatest reached threshold completed, at it active, above it
\* pending; all completed from 100, all pending below the first threshold),
\* whatever the statuses were before; ids and thresholds are kept.
C23_StepsFollowReference ==
    \A p \in 0..100 :
        LET after == updateProgress(store, p, "").steps
        IN  /\ Len(after) = Len(store.steps)
            /\ \A k \in 1..Len(after) :
                  /\ after[k].status = ReferenceStatuses(store.steps, p)[k]
                  /\ after[k].id = store.steps[k].id
                  /\ after[k].progress = store.steps[k].progress

\* a paper-to-code task at progress 55, between the thresholds 50 and 60:
\* the step of threshold 50 is active, those before it completed, the rest
\* pending
C23_Witness ==
    /\ store.progress = 55
    /\ Len(store.steps) = 8
    /\ \A k \in 1..4 : store.steps[k].status = "completed"
    /\ store.steps[5].status = "active"
    /\ \A k \in 6..8 : store.steps[k].status = "pending"

ActiveSteps(steps) == {k \in 1..Len(steps) : steps[k].status = "active"}

\* C24: in every reachable state of the store at most one step is active,
\* and every step below the active one is completed.
C24_OneActiveStepAfterCompleted ==
    /\ Cardinality(ActiveSteps(store.steps)) <= 1
    /\ \A k \in ActiveSteps(store.steps) :
          \A j \in 1..(k - 1) : store.steps[j].status = "completed"

\* a recovered paper-to-code task at progress 40: its fourth step is the
\* active one
C24_Witness ==
    /\ recoveryState.recoveredTaskId = store.activeTaskId
    /\ store.activeTaskId # Null
    /\ store.status = "running"
    /\ store.progress = 40
    /\ Len(store.steps) = 8
    /\ ActiveSteps(store.steps) = {4}
    /\ \A j \in 1..3 : store.steps[j].status = "completed"

\* C25: the frames of the progress channel and those of the content channel
\* write disjoint parts of the store, so for every frame f of the one and g
\* of the other, f then g gives the same store as g then f.
C25_ChannelsCommute ==
    SomeChannelOpen =>
        \A f \in TaskFrames, g \in ContentFrames :
            handleMessage(handleMessage(store, f), g)
                = handleMessage(handleMessage(store, g), f)

ContentFields == {"streamedCode", "currentFile", "generatedFiles"}

\* stores a and b agree on every field of the set fields
SameOn(a, b, fields) == \A k \in fields : a[k] = b[k]

\* C25 as amended: every frame of the progress channel but the error frame
\* with the task-not-found text leaves the streamed content, the current
\* file and the file list as they are, every frame of the content channel
\* leaves all other fields as they are, and for such f and g, f then g gives
\* the same store as g then f.
C25_ChannelsCommuteButNotFound ==
    SomeChannelOpen =>
        \A f \in TaskFrames \ {NotFoundFrame}, g \in ContentFrames :
            /\ SameOn(handleMessage(store, f), store, ContentFields)
            /\ SameOn(handleMessage(store, g), store,
                      (DOMAIN store) \ ContentFields)
            /\ handleMessage(handleMessage(store, f), g)
                  = handleMessage(handleMessage(store, g), f)

\* a running task that has received frames of both channels
C25_Witness ==
    /\ SomeChannelOpen
    /\ store.status = "running"
    /\ store.activityLogs = <<PlanningEntry>>
    /\ store.steps = StepsAt(store.workflowType, 40)
    /\ store.streamedCode # << >>
    /\ store.generatedFiles # << >>
    /\ store.pendingInteraction = Null

\* C26: in every reachable state the result is non-null only if the status
\* is completed, and the error is non-null only if the status is error.
C26_ResultAndErrorMatchStatus ==
    /\ store.result # Null => store.status = "completed"
    /\ store.error # Null => store.status = "error"

\* C27: every applied progress or status frame whose message has text
\* appends exactly one log entry, with or without a progress value; a
\* heartbeat frame appends no entry and changes no field of the store.
C27_MessageFramesAreLogged ==
    SomeChannelOpen =>
        /\ \A m \in ProgressFrames \cup StatusFrames :
              (m.message # Null /\ m.message # "")
              => LET after == handleMessage(store, m).activityLogs
                 IN  /\ Len(after) = Len(store.activityLogs) + 1
                     /\ SubSeq(after, 1, Len(store.activityLogs)) = store.activityLogs
        /\ \A m \in HeartbeatFrames : handleMessage(store, m) = store

InfoEntry == LogEntry(<<"", "Planning">>, 40, "info")

\* C28: a status frame never changes the task status and never creates or
\* clears an interaction, whatever its status field says; it changes at most
\* progress, message, steps (with the current step index) and the log.
C28_StatusFrameIsInformational ==
    [][\A ch \in Channels, m \in StatusReports :
          WsOnMessage(ch, m)
          => /\ store'.status = store.status
             /\ store'.pendingInteraction = store.pendingInteraction
             /\ store'.isWaitingForInput = store.isWaitingForInput
             /\ SameOn(store', store,
                       (DOMAIN store) \ {"progress", "message", "steps",
                                         "currentStepIndex", "activityLogs"})]_vars

\* a status frame has been applied while a plan review was pending: the
\* review is still pending and the status still running
C28_Witness ==
    /\ store.activityLogs = <<WaitingEntry("plan_review"), InfoEntry>>
    /\ store.pendingInteraction = "plan_review"
    /\ store.isWaitingForInput
    /\ store.status = "running"
    /\ store.progress = 40

\* log a is a prefix of log b
IsPrefix(a, b) == Len(a) <= Len(b) /\ SubSeq(b, 1, Len(a)) = a

\* the steps that call reset() or create the store anew
FullReset ==
    \/ HandleStart
    \/ CancelOk
    \/ RecoverFailure
    \/ \E taskStatus \in StatusResponses :
          /\ taskStatus.status \notin {"running", "completed", "error"}
          /\ RecoverResponse(taskStatus)
    \/ \E ch \in Channels : WsOnMessage(ch, NotFoundFrame)
    \/ \E p \in Pages : Reload(p)

\* C29: the log is append-only: in every step other than a full reset the
\* log before the step is a prefix of the log after it, and appending an
\* entry changes no other field of the store.
C29_LogIsAppendOnly ==
    [][/\ ~FullReset => IsPrefix(store.activityLogs, store'.activityLogs)
       /\ \A type \in {"info", "progress", "success", "error"} :
            LET after == addActivityLog(store, <<"", "Planning">>, store.progress, type)
            IN  /\ SameOn(after, store, (DOMAIN store) \ {"activityLogs"})
                /\ IsPrefix(store.activityLogs, after.activityLogs)
                /\ Len(after.activityLogs) = Len(store.activityLogs) + 1]_vars

\* an answered plan review on a running task: two entries, in the order of
\* their events
C29_Witness ==
    /\ store.activityLogs = <<WaitingEntry("plan_review"), SubmittedEntry("confirm")>>
    /\ store.status = "running"
    /\ store.progress = 10
    /\ store.pendingInteraction = Null
    /\ respondReqs = {}

C31_UnknownStatusResets ==
    [][\A taskStatus \in StatusResponses :
          (/\ taskStatus.status \notin {"running", "completed", "error"}
           /\ RecoverResponse(taskStatus))
          => /\ store' = initialState
             /\ store'.activeTaskId = Null
             /\ store'.status = "idle"
             /\ blob' = partialize(initialState)
             /\ recoveryState' = initialRecoveryState]_vars

\* the query of a recovery is in flight and a plan review has been asked
\* for meanwhile
C31_Witness ==
    /\ recoverReq.pending
    /\ recoverReq.activeTaskId = store.activeTaskId
    /\ store.needsRecovery
    /\ store.pendingInteraction = "plan_review"
    /\ store.activityLogs = <<WaitingEntry("plan_review")>>

\* C32: at a page load, if the persisted projection holds no task id or a
\* status that is idle, completed or error, the recovery hook issues no
\* status query and leaves the store as it was read from the projection:
\* off the workflow pages the store is the hydrated one, and on them it
\* differs from it in nothing but the status, which only the streaming
\* hook of the page writes.
C32_NothingToRecover ==
    [][\A p \in Pages :
          (/\ Reload(p)
           /\ \/ rehydrate(blob).activeTaskId = Null
              \/ rehydrate(blob).status \in {"idle", "completed", "error"})
          => /\ recoverReq' = NoRequest
             /\ recoveryState' = initialRecoveryState
             /\ ~store'.needsRecovery
             /\ SameOn(store', rehydrate(blob), (DOMAIN store) \ {"status"})
             /\ p \notin StreamingPages => store' = rehydrate(blob)
             /\ rehydrate(blob).activeTaskId = Null => store' = rehydrate(blob)]_vars

\* a task has completed and its projection holds no task: the state a
\* page load starts from with nothing to recover
C32_Witness ==
    /\ store.status = "completed"
    /\ store.result = "r1"
    /\ store.activeTaskId # Null
    /\ blob.activeTaskId = Null
    /\ blob.status = "idle"
    /\ ~blob.isWaitingForInput
    /\ ~recoverReq.pending

\* C33: after every store mutation the persisted projection is that of the
\* current state: it holds the task id, workflow type, status, progress and
\* steps of the store exactly when the status is running or
\* isWaitingForInput is true, and otherwise status idle, no task id, no
\* workflow type, progress 0 and no steps.
C33_BlobIsProjection ==
    /\ blob.isWaitingForInput = store.isWaitingForInput
    /\ IF store.status = "running" \/ store.isWaitingForInput
       THEN /\ blob.activeTaskId = store.activeTaskId
            /\ blob.workflowType = store.workflowType
            /\ blob.status = store.status
            /\ blob.progress = store.progress
            /\ blob.steps = store.steps
       ELSE /\ blob.activeTaskId = Null
            /\ blob.workflowType = Null
            /\ blob.status = "idle"
            /\ blob.progress = 0
            /\ blob.steps = << >>

\* a task at progress 10 waits for a plan review and is persisted as such
C33_Witness ==
    /\ store.pendingInteraction = "plan_review"
    /\ store.progress = 10
    /\ blob.activeTaskId = store.activeTaskId
    /\ blob.activeTaskId # Null
    /\ blob.progress = 10
    /\ blob.isWaitingForInput
    /\ blob.steps = StepsAt(store.workflowType, 10)

\* C34: while a respond or skip request for the pending interaction is in
\* flight no second one is issued for it: at most one request per
\* interaction is outstanding.
C34_OneRequestPerInteraction ==
    \A r1, r2 \in respondReqs :
        AnsweredBy(r1.action) = AnsweredBy(r2.action) => r1 = r2

\* C35: in every reachable state, the rehydrated one after a reload and the
\* ones reached by recovery included, isWaitingForInput is true exactly when
\* pendingInteraction is non-null.
C35_WaitingIffPending == store.isWaitingForInput <=> (store.pendingInteraction # Null)

\* C36: the result of the recovery's status query is applied only if the
\* store's active task is still the one queried: after a full reset or a new
\* start during the query, the late result changes neither status, progress,
\* steps, result nor error.
C36_LateResultIgnored ==
    [][\A taskStatus \in StatusResponses :
          (RecoverResponse(taskStatus) /\ store.activeTaskId # recoverReq.activeTaskId)
          => SameOn(store', store, {"status", "progress", "steps", "result", "error"})]_vars

\* C37: the success of a respond request affects the store only if the
\* interaction it answered is still the pending one: it clears no
\* interaction that arrived during the request and, after a full reset, it
\* leaves the store in its initial state, appending no log entry.
C37_LateSuccessIgnored ==
    [][\A r \in respondReqs :
          (RespondOk(r) /\ store.pendingInteraction # AnsweredBy(r.action))
          => /\ store'.pendingInteraction = store.pendingInteraction
             /\ store'.isWaitingForInput = store.isWaitingForInput
             /\ store'.activityLogs = store.activityLogs
             /\ store = initialState => store' = initialState]_vars

\* C38: once the url of an instance has changed from one endpoint to
\* another, no reconnect made for the old endpoint acts on it: no socket to
\* the old endpoint is created and the socket of the new one is not closed,
\* however late the close event of the old socket comes.
C38_NoReconnectForOldEndpoint ==
    [][\A url \in TaskIds, latest \in BOOLEAN :
          (/\ ChanTimeout(url, latest)
           /\ ws[ProgressChannel].url \notin {Null, url})
          => /\ chan'.wsRef = chan.wsRef
             /\ chan'.closing = chan.closing]_vars

\* C39: a connect to a new endpoint has the whole reconnect budget: attempts
\* used against the previous endpoint do not count against the new one, even
\* if the new socket never opens.
C39_FreshBudgetPerEndpoint ==
    [][\A url \in TaskIds :
          (/\ ws'[ProgressChannel].url = url
           /\ ws[ProgressChannel].url # url
           /\ page' \in StreamingPages
           /\ chan.closing[url] = 0
           /\ chan.timers[url] = 0)
          => chan'.reconnectAttempts = 0]_vars

\* C40: a cancel call that fails leaves the store as it was: task id,
\* status, progress, steps and a pending interaction are kept, the persisted
\* projection is not rewritten and both sockets keep their url and state.
C40_FailedCancelChangesNothing ==
    [][CancelFail
       => /\ store' = store
          /\ blob' = blob
          /\ ws' = ws
          /\ prevTaskIdRef' = prevTaskIdRef
          /\ ~cancelReq']_vars

\* a cancel call is in flight for a task that waits for a plan review with
\* its socket open
C40_Witness ==
    /\ cancelReq
    /\ store.activeTaskId # Null
    /\ store.status = "running"
    /\ store.progress = 40
    /\ store.pendingInteraction = "plan_review"
    /\ SomeChannelOpen

====
